---- MODULE Spec2Model ----
(***************************************************************************)
(* Cloud-scene background (src/src/script.js and its debug variant          *)
(* src/unnamed/part_000): the pointer/touch/resize handlers, the animation  *)
(* driver animate(), the cloud field builder and the font-load callback.    *)
(*                                                                          *)
(* Every JavaScript Number of the program is an IEEE-754 binary64 value.    *)
(* The model keeps that arithmetic: a number is an exact dyadic rational    *)
(* man * 2^exp with an arbitrary-precision mantissa, and each arithmetic    *)
(* operation of the program is the exact operation followed by rounding to  *)
(* 53 significant bits, ties to even.  The values the program computes here *)
(* stay far inside the normal range, so subnormals, infinities and NaN do   *)
(* not arise; the sign of zero is not observable and is dropped.            *)
(***************************************************************************)
EXTENDS Integers, Sequences, FiniteSets, TLC

(***************************************************************************)
(* Arbitrary-precision naturals: little-endian sequences of limbs in        *)
(* 0..Base-1 without high zero limbs; zero is the empty sequence.           *)
(***************************************************************************)
\* bits of a limb: the product of two limbs plus a carry fits the checker's integers
LimbBits == 15

Base == 2^LimbBits

Limb(a, i) == IF i <= Len(a) THEN a[i] ELSE 0

MaxOf(m, n) == IF m >= n THEN m ELSE n

MinOf(m, n) == IF m <= n THEN m ELSE n

RECURSIVE BigNorm(_)
BigNorm(a) ==
  IF a = <<>> THEN a
  ELSE IF a[Len(a)] = 0 THEN BigNorm(SubSeq(a, 1, Len(a) - 1))
  ELSE a

RECURSIVE BigFromNat(_)
BigFromNat(n) == IF n = 0 THEN <<>> ELSE <<n % Base>> \o BigFromNat(n \div Base)

RECURSIVE BigAddC(_, _, _, _)
BigAddC(a, b, i, c) ==
  IF i > MaxOf(Len(a), Len(b))
  THEN (IF c = 0 THEN <<>> ELSE <<c>>)
  ELSE LET s == Limb(a, i) + Limb(b, i) + c
       IN  <<s % Base>> \o BigAddC(a, b, i + 1, s \div Base)

BigAdd(a, b) == BigAddC(a, b, 1, 0)

RECURSIVE BigSubC(_, _, _, _)
BigSubC(a, b, i, c) ==
  IF i > Len(a) THEN <<>>
  ELSE LET s == a[i] - Limb(b, i) - c
       IN  IF s < 0 THEN <<s + Base>> \o BigSubC(a, b, i + 1, 1)
           ELSE <<s>> \o BigSubC(a, b, i + 1, 0)

\* a - b for a >= b
BigSub(a, b) == BigNorm(BigSubC(a, b, 1, 0))

RECURSIVE BigCmpAt(_, _, _)
BigCmpAt(a, b, i) ==
  IF i = 0 THEN 0
  ELSE IF a[i] < b[i] THEN -1
  ELSE IF a[i] > b[i] THEN 1
  ELSE BigCmpAt(a, b, i - 1)

\* -1, 0 or 1 as a < b, a = b, a > b
BigCmp(a, b) ==
  IF Len(a) < Len(b) THEN -1
  ELSE IF Len(a) > Len(b) THEN 1
  ELSE BigCmpAt(a, b, Len(a))

RECURSIVE BigMulSmallC(_, _, _, _)
BigMulSmallC(a, k, i, c) ==
  IF i > Len(a)
  THEN (IF c = 0 THEN <<>> ELSE <<c>>)
  ELSE LET s == a[i] * k + c
       IN  <<s % Base>> \o BigMulSmallC(a, k, i + 1, s \div Base)

\* a * k for 0 <= k < Base
BigMulSmall(a, k) == IF k = 0 THEN <<>> ELSE BigMulSmallC(a, k, 1, 0)

RECURSIVE BigMulAt(_, _, _)
BigMulAt(a, b, j) ==
  IF j > Len(b) THEN <<>>
  ELSE LET rest == BigMulAt(a, b, j + 1)
       IN  BigAdd(BigMulSmall(a, b[j]),
                  IF rest = <<>> THEN <<>> ELSE <<0>> \o rest)

BigMul(a, b) == BigMulAt(a, b, 1)

RECURSIVE BigDivAt(_, _, _)
BigDivAt(a, k, i) ==
  IF i > Len(a) THEN [q |-> <<>>, r |-> 0]
  ELSE LET up  == BigDivAt(a, k, i + 1)
           cur == up.r * Base + a[i]
       IN  [q |-> <<cur \div k>> \o up.q, r |-> cur % k]

\* quotient and remainder of a by k, 0 < k < Base
BigDivSmall(a, k) ==
  LET d == BigDivAt(a, k, 1) IN [q |-> BigNorm(d.q), r |-> d.r]

Zeros(n) == [i \in 1..n |-> 0]

\* a * 2^n
BigShl(a, n) ==
  IF a = <<>> THEN <<>>
  ELSE Zeros(n \div LimbBits) \o BigMulSmall(a, 2^(n % LimbBits))

\* floor(a / 2^n)
BigShr(a, n) ==
  LET drop == n \div LimbBits
  IN  IF drop >= Len(a) THEN <<>>
      ELSE BigDivSmall(SubSeq(a, drop + 1, Len(a)), 2^(n % LimbBits)).q

RECURSIVE NatBitLen(_)
NatBitLen(n) == IF n = 0 THEN 0 ELSE 1 + NatBitLen(n \div 2)

BigBitLen(a) ==
  IF a = <<>> THEN 0 ELSE LimbBits * (Len(a) - 1) + NatBitLen(a[Len(a)])

RECURSIVE NatTrailingZeros(_)
NatTrailingZeros(n) == IF n % 2 = 1 THEN 0 ELSE 1 + NatTrailingZeros(n \div 2)

RECURSIVE BigTrailingZeros(_)
BigTrailingZeros(a) ==
  IF a[1] = 0 THEN LimbBits + BigTrailingZeros(Tail(a))
  ELSE NatTrailingZeros(a[1])

BigIsOdd(a) == a # <<>> /\ a[1] % 2 = 1

(***************************************************************************)
(* Exact dyadic rationals (-1)^neg * man * 2^exp, man odd or zero.          *)
(***************************************************************************)
DyZero == [neg |-> FALSE, man |-> <<>>, exp |-> 0]

DyMake(neg, man, exp) ==
  IF man = <<>> THEN DyZero
  ELSE LET t == BigTrailingZeros(man)
       IN  [neg |-> neg, man |-> BigShr(man, t), exp |-> exp + t]

DyInt(n) == IF n < 0 THEN DyMake(TRUE, BigFromNat(-n), 0)
            ELSE DyMake(FALSE, BigFromNat(n), 0)

DyNeg(a) == IF a.man = <<>> THEN a ELSE [a EXCEPT !.neg = ~a.neg]

DyAbs(a) == [a EXCEPT !.neg = FALSE]

DyAdd(a, b) ==
  LET e  == MinOf(a.exp, b.exp)
      ma == BigShl(a.man, a.exp - e)
      mb == BigShl(b.man, b.exp - e)
  IN  IF a.neg = b.neg THEN DyMake(a.neg, BigAdd(ma, mb), e)
      ELSE IF BigCmp(ma, mb) >= 0 THEN DyMake(a.neg, BigSub(ma, mb), e)
      ELSE DyMake(b.neg, BigSub(mb, ma), e)

DySub(a, b) == DyAdd(a, DyNeg(b))

DyMul(a, b) == DyMake(a.neg # b.neg, BigMul(a.man, b.man), a.exp + b.exp)

\* a * 2^n
DyScale(a, n) == IF a.man = <<>> THEN a ELSE [a EXCEPT !.exp = a.exp + n]

DySign(a) == IF a.man = <<>> THEN 0 ELSE IF a.neg THEN -1 ELSE 1

DyLe(a, b) == DySign(DySub(a, b)) <= 0

DyLt(a, b) == DySign(DySub(a, b)) < 0

DyMax(a, b) == IF DyLe(a, b) THEN b ELSE a

(***************************************************************************)
(* binary64: rounding to 53 significant bits, ties to even, and the         *)
(* operations +, -, *, /, % of JavaScript Numbers.                          *)
(***************************************************************************)
\* significand bits of binary64
Precision == 53

RoundDouble(d) ==
  LET n == BigBitLen(d.man)
  IN  IF n <= Precision THEN d
      ELSE LET s    == n - Precision
               q    == BigShr(d.man, s)
               rem  == BigSub(d.man, BigShl(q, s))
               half == BigShl(<<1>>, s - 1)
               c    == BigCmp(rem, half)
               up   == c > 0 \/ (c = 0 /\ BigIsOdd(q))
           IN  DyMake(d.neg, IF up THEN BigAdd(q, <<1>>) ELSE q, d.exp + s)

FAdd(a, b) == RoundDouble(DyAdd(a, b))

FSub(a, b) == RoundDouble(DySub(a, b))

FMul(a, b) == RoundDouble(DyMul(a, b))

\* a / n for an integer divisor 0 < n < Base: the quotient to 2*Precision
\* bits with a sticky bit for the remainder, then rounded
FDivInt(a, n) ==
  LET shift == 2 * Precision + LimbBits
      d     == BigDivSmall(BigShl(a.man, shift), n)
      m     == BigAdd(BigShl(d.q, 1), IF d.r = 0 THEN <<>> ELSE <<1>>)
  IN  RoundDouble(DyMake(a.neg, m, a.exp - shift - 1))

\* a % n for an integer divisor 0 < n < Base (the result has the sign of a
\* and is exact)
FModInt(a, n) ==
  IF a.exp >= 0
  THEN DyMake(a.neg, BigFromNat(BigDivSmall(BigShl(a.man, a.exp), n).r), 0)
  ELSE LET k  == -a.exp
           hi == BigShr(a.man, k)
           lo == BigSub(a.man, BigShl(hi, k))
           r  == BigDivSmall(hi, n).r
       IN  DyMake(a.neg, BigAdd(BigShl(BigFromNat(r), k), lo), a.exp)

(***************************************************************************)
(* Number literals of the source.  A decimal literal denotes the binary64   *)
(* value nearest to it, which is what the correctly rounded quotient of two *)
(* small integers gives.                                                    *)
(***************************************************************************)
MouseFactorX == FDivInt(DyInt(5), 100)          \* 0.05

MouseFactorY == FDivInt(DyInt(3), 100)          \* 0.03

CloudSpeed == FDivInt(DyInt(3), 100)            \* 0.03 per millisecond

EaseFactor == FDivInt(DyInt(5), 1000)           \* 0.005

LoopLength == 8000

CameraStartZ == 6000

BackgroundWidth == 32

SpreadX == 1000

OffsetX == 500

SpreadY == 200

OffsetY == 15

ScaleSpread == FDivInt(DyInt(3), 2)             \* 1.5

ScaleMin == FDivInt(DyInt(1), 2)                \* 0.5

\* Math.PI = 0x1.921fb54442d18p+1
MathPI == [neg |-> FALSE, man |-> <<1443, 21777, 4349, 25>>, exp |-> -48]

(***************************************************************************)
(* Bounds of the model and the inputs it enumerates.                        *)
(***************************************************************************)
\* executions of animate() explored, the one made by init() included
MaxTicks == 3

\* iterations of the cloud loop explored (the source runs it 8000 times)
NumQuads == 4

\* window.innerWidth, window.innerHeight
WindowSizes == {<<1024, 768>>, <<800, 600>>}

\* clientX, clientY of a mousemove; pageX, pageY of a touch
PointerPositions == {<<0, 0>>, <<700, 200>>}

\* milliseconds from reading startTime to the Date.now() of the first animate()
StartDelays == {0, 1}

\* milliseconds between the Date.now() of two consecutive animate() calls
FrameDelays == {266666, 800000}

\* results of the six Math.random() calls of one loop iteration, in call order
RandomMax == [neg |-> FALSE, man |-> <<32767, 32767, 32767, 255>>, exp |-> -53]

DrawVectors ==
  { [k \in 1..6 |-> DyZero],
    [k \in 1..6 |-> ScaleMin],
    [k \in 1..6 |-> RandomMax],
    <<ScaleMin, RandomMax, DyZero, RandomMax, ScaleMin, RandomMax>> }

Touch(p) == [pageX |-> p[1], pageY |-> p[2]]

\* event.touches of a touchmove: no touch, one touch, several touches
TouchLists ==
  { <<>>,
    <<Touch(<<0, 0>>)>>,
    <<Touch(<<700, 200>>)>>,
    <<Touch(<<0, 0>>), Touch(<<700, 200>>)>>,
    <<Touch(<<700, 200>>), Touch(<<0, 0>>)>>,
    <<Touch(<<700, 200>>), Touch(<<700, 200>>), Touch(<<0, 0>>)>> }

(***************************************************************************)
(* State.                                                                   *)
(***************************************************************************)
VARIABLES
  phase,         \* "load": the module body has run up to its init() call;
                 \* "running": init() has returned
  innerWidth,    \* window.innerWidth
  innerHeight,   \* window.innerHeight
  windowHalfX,
  windowHalfY,
  mouseX,        \* the pointer target
  mouseY,
  camera,        \* [x, y, z: camera.position, aspect: camera.aspect]
  rendererSize,  \* the size given to renderer.setSize
  background,    \* size of the canvas painted as the body background
  scene,         \* the objects added to the scene, in order
  frame,         \* what the most recent renderer.render call drew
  rafPending,    \* animate callbacks scheduled by requestAnimationFrame
  now,           \* Date.now() - startTime at its most recent reading
  fontLoad,      \* "none" (script.js), "loading", "loaded", "failed"
  geometries,    \* createClouds: the local array of transformed quads
  cloudI,        \* createClouds: the loop index i
  ticks,         \* history: executions of animate()
  loopRenders,   \* history: renderer.render calls made by animate()
  lastOp,        \* history: the handler that ran last; n is the length of a
                 \* touchmove's touch list, or how many resize events in a
                 \* row reported the same window size (at most 2)
  lastPtr,       \* history: coordinates of the most recent mousemove or
                 \* single-touch touchmove
  resizedSince   \* history: a resize happened after that event

vars ==
  <<phase, innerWidth, innerHeight, windowHalfX, windowHalfY, mouseX, mouseY,
    camera, rendererSize, background, scene, frame, rafPending, now, fontLoad,
    geometries, cloudI, ticks, loopRenders, lastOp, lastPtr, resizedSince>>

NoBackground == [width |-> 0, height |-> 0]

NoFrame == [drawn |-> FALSE]

NoPointer == <<>>

Op(name, n) == [op |-> name, n |-> n]

\* lastOp after a handler ran; the history is kept only in the specifications
\* whose initial state starts it
Record(name, n) == IF lastOp.op = "untraced" THEN lastOp ELSE Op(name, n)

(***************************************************************************)
(* The handlers, as functions of the state they read.                       *)
(***************************************************************************)
\* createBackground: the canvas it allocates
CreateBackground(height) == [width |-> BackgroundWidth, height |-> height]

\* renderer.render(scene, camera)
Render(cam, objects, size) ==
  [drawn |-> TRUE, x |-> cam.x, y |-> cam.y, z |-> cam.z, aspect |-> cam.aspect,
   objects |-> Len(objects), size |-> size]

\* (x - halfX) * 0.05, (y - halfY) * 0.03
ComputePointerTarget(x, y, halfX, halfY) ==
  [mouseX |-> FMul(FSub(DyInt(x), halfX), MouseFactorX),
   mouseY |-> FMul(FSub(DyInt(y), halfY), MouseFactorY)]

\* ComputePointerTarget tabulated once over the enumerated positions and the
\* half-dimensions of the enumerated window sizes
PointerTargets ==
  [k \in {<<p[1], p[2], FDivInt(DyInt(s[1]), 2), FDivInt(DyInt(s[2]), 2)>> :
            p \in PointerPositions, s \in WindowSizes}
     |-> ComputePointerTarget(k[1], k[2], k[3], k[4])]

PointerTarget(x, y, halfX, halfY) ==
  IF <<x, y, halfX, halfY>> \in DOMAIN PointerTargets
  THEN PointerTargets[<<x, y, halfX, halfY>>]
  ELSE ComputePointerTarget(x, y, halfX, halfY)

\* mutant of OnDocumentMouseMove: the offset is added to the stored target
MouseMoveAccumulating(event) ==
  LET t == PointerTarget(event.clientX, event.clientY, windowHalfX, windowHalfY)
  IN  [mouseX |-> FAdd(mouseX, t.mouseX), mouseY |-> FAdd(mouseY, t.mouseY)]

OnDocumentMouseMove(event) ==
  PointerTarget(event.clientX, event.clientY, windowHalfX, windowHalfY)

\* mutant of OnDocumentTouchMove: any non-empty touch list is accepted
TouchMoveAnyTouches(event) ==
  IF Len(event.touches) >= 1
  THEN PointerTarget(event.touches[1].pageX, event.touches[1].pageY,
                     windowHalfX, windowHalfY)
  ELSE [mouseX |-> mouseX, mouseY |-> mouseY]

OnDocumentTouchMove(event) ==
  IF Len(event.touches) = 1
  THEN PointerTarget(event.touches[1].pageX, event.touches[1].pageY,
                     windowHalfX, windowHalfY)
  ELSE [mouseX |-> mouseX, mouseY |-> mouseY]

ComputeWindowResize(width, height) ==
  [windowHalfX  |-> FDivInt(DyInt(width), 2),
   windowHalfY  |-> FDivInt(DyInt(height), 2),
   aspect       |-> FDivInt(DyInt(width), height),
   rendererSize |-> <<width, height>>,
   background   |-> CreateBackground(height)]

\* ComputeWindowResize tabulated once over the enumerated window sizes
WindowResizes == [s \in WindowSizes |-> ComputeWindowResize(s[1], s[2])]

\* mutant of OnWindowResize: the half-width is halved again on every call
ResizeHalvingAgain(width, height) ==
  [ComputeWindowResize(width, height) EXCEPT
     !.windowHalfX = FDivInt(windowHalfX, 2)]

OnWindowResize(width, height) ==
  IF <<width, height>> \in DOMAIN WindowResizes
  THEN WindowResizes[<<width, height>>]
  ELSE ComputeWindowResize(width, height)

\* mutant of CameraZ: the position is not wrapped
CameraZUnwrapped(elapsed) ==
  FAdd(DyNeg(FMul(DyInt(elapsed), CloudSpeed)), DyInt(LoopLength))

\* -position + 8000 with position = (elapsed * 0.03) % 8000
CameraZ(elapsed) ==
  FAdd(DyNeg(FModInt(FMul(DyInt(elapsed), CloudSpeed), LoopLength)),
       DyInt(LoopLength))

\* mutant of Ease: the difference is taken the wrong way round
EaseAway(v, target) == FAdd(v, FMul(FSub(v, target), EaseFactor))

\* v += (target - v) * 0.005
Ease(v, target) == FAdd(v, FMul(FSub(target, v), EaseFactor))

\* mutant of Animate: the next frame is not requested
AnimateOnce(cam, elapsed) ==
  [camera    |-> [cam EXCEPT !.x = Ease(cam.x, mouseX),
                             !.y = Ease(cam.y, DyNeg(mouseY)),
                             !.z = CameraZ(elapsed)],
   scheduled |-> 0,
   renders   |-> 1]

\* mutant of Animate: the depth is offset by the pointer target
AnimateDepthFromPointer(cam, elapsed) ==
  [camera    |-> [cam EXCEPT !.x = Ease(cam.x, mouseX),
                             !.y = Ease(cam.y, DyNeg(mouseY)),
                             !.z = FAdd(CameraZ(elapsed), mouseX)],
   scheduled |-> 1,
   renders   |-> 1]

\* animate(): the camera it leaves, the callbacks it schedules and the
\* render calls it makes
Animate(cam, elapsed) ==
  [camera    |-> [cam EXCEPT !.x = Ease(cam.x, mouseX),
                             !.y = Ease(cam.y, DyNeg(mouseY)),
                             !.z = CameraZ(elapsed)],
   scheduled |-> 1,
   renders   |-> 1]

\* mutant of MakeQuad: the depth counts from one
MakeQuadFromOne(i, r) ==
  [x        |-> FSub(FMul(r[1], DyInt(SpreadX)), DyInt(OffsetX)),
   y        |-> FSub(FMul(FMul(DyNeg(r[2]), r[3]), DyInt(SpreadY)), DyInt(OffsetY)),
   z        |-> DyInt(i + 1),
   rotation |-> FMul(r[4], MathPI),
   scale    |-> FAdd(FMul(FMul(r[5], r[6]), ScaleSpread), ScaleMin)]

\* one iteration of the createClouds loop: the transform baked into quad i,
\* r being the results of its Math.random() calls in call order
MakeQuad(i, r) ==
  [x        |-> FSub(FMul(r[1], DyInt(SpreadX)), DyInt(OffsetX)),
   y        |-> FSub(FMul(FMul(DyNeg(r[2]), r[3]), DyInt(SpreadY)), DyInt(OffsetY)),
   z        |-> DyInt(i),
   rotation |-> FMul(r[4], MathPI),
   scale    |-> FAdd(FMul(FMul(r[5], r[6]), ScaleSpread), ScaleMin)]

\* createClouds: what it adds to the scene
CloudMeshes == <<"cloudMesh", "cloudMeshA">>

\* mutant of OnFontLoaded: the text is added twice
OnFontLoadedTwice(objects) == Append(Append(objects, "text"), "text")

\* the font-load callback: scene.add(text)
OnFontLoaded(objects) == Append(objects, "text")

(***************************************************************************)
(* Initial state: the module body evaluated down to its last statement,     *)
(* the init() call.                                                         *)
(***************************************************************************)
InitWith(font, history) ==
  /\ phase = "load"
  /\ \E s \in WindowSizes :
       /\ innerWidth = s[1]
       /\ innerHeight = s[2]
       /\ windowHalfX = FDivInt(DyInt(s[1]), 2)
       /\ windowHalfY = FDivInt(DyInt(s[2]), 2)
       /\ camera = [x |-> DyZero, y |-> DyZero, z |-> DyInt(CameraStartZ),
                    aspect |-> FDivInt(DyInt(s[1]), s[2])]
       /\ rendererSize = s
  /\ mouseX = DyZero
  /\ mouseY = DyZero
  /\ background = NoBackground
  /\ scene = <<>>
  /\ frame = NoFrame
  /\ rafPending = 0
  /\ now = 0
  /\ fontLoad = font
  /\ geometries = <<>>
  /\ cloudI = 0
  /\ ticks = 0
  /\ loopRenders = 0
  /\ lastOp = Op(history, 0)
  /\ lastPtr = NoPointer
  /\ resizedSince = FALSE

\* script.js
Init == InitWith("none", "load")

\* the debug variant: fontLoader.load has been called
InitDebug == InitWith("loading", "untraced")

(***************************************************************************)
(* Actions.                                                                 *)
(***************************************************************************)
\* init(): createBackground(), createClouds(), animate()
Start ==
  /\ phase = "load"
  /\ phase' = "running"
  /\ background' = CreateBackground(innerHeight)
  /\ scene' = scene \o CloudMeshes
  /\ \E d \in StartDelays :
       \E a \in {Animate(camera, now + d)} :
           /\ now' = now + d
           /\ camera' = a.camera
           /\ rafPending' = rafPending + a.scheduled
           /\ loopRenders' = loopRenders + a.renders
           /\ frame' = Render(a.camera, scene', rendererSize)
  /\ ticks' = ticks + 1
  /\ lastOp' = Record("init", 0)
  /\ UNCHANGED <<innerWidth, innerHeight, windowHalfX, windowHalfY, mouseX,
                 mouseY, rendererSize, fontLoad, geometries, cloudI, lastPtr,
                 resizedSince>>

\* the host runs a scheduled animate callback
AnimateFrame ==
  /\ phase = "running"
  /\ rafPending > 0
  /\ ticks < MaxTicks
  /\ \E d \in FrameDelays :
       \E a \in {Animate(camera, now + d)} :
           /\ now' = now + d
           /\ camera' = a.camera
           /\ rafPending' = rafPending - 1 + a.scheduled
           /\ loopRenders' = loopRenders + a.renders
           /\ frame' = Render(a.camera, scene, rendererSize)
  /\ ticks' = ticks + 1
  /\ lastOp' = Record("frame", 0)
  /\ UNCHANGED <<phase, innerWidth, innerHeight, windowHalfX, windowHalfY,
                 mouseX, mouseY, rendererSize, background, scene, fontLoad,
                 geometries, cloudI, lastPtr, resizedSince>>

\* a mousemove event on the document
MouseMove ==
  /\ phase = "running"
  /\ \E p \in PointerPositions :
       LET t == OnDocumentMouseMove([clientX |-> p[1], clientY |-> p[2]])
       IN  /\ mouseX' = t.mouseX
           /\ mouseY' = t.mouseY
           /\ lastPtr' = p
  /\ resizedSince' = FALSE
  /\ lastOp' = Record("mousemove", 0)
  /\ UNCHANGED <<phase, innerWidth, innerHeight, windowHalfX, windowHalfY,
                 camera, rendererSize, background, scene, frame, rafPending,
                 now, fontLoad, geometries, cloudI, ticks, loopRenders>>

\* a touchmove event on the document
TouchMove ==
  /\ phase = "running"
  /\ \E ts \in TouchLists :
       LET t == OnDocumentTouchMove([touches |-> ts])
       IN  /\ mouseX' = t.mouseX
           /\ mouseY' = t.mouseY
           /\ lastOp' = Record("touchmove", Len(ts))
           /\ IF Len(ts) = 1
              THEN /\ lastPtr' = <<ts[1].pageX, ts[1].pageY>>
                   /\ resizedSince' = FALSE
              ELSE UNCHANGED <<lastPtr, resizedSince>>
  /\ UNCHANGED <<phase, innerWidth, innerHeight, windowHalfX, windowHalfY,
                 camera, rendererSize, background, scene, frame, rafPending,
                 now, fontLoad, geometries, cloudI, ticks, loopRenders>>

\* mutant of Resize: the pointer target is measured again from the new centre
ResizeRederiving(width, height) ==
  /\ phase = "running"
  /\ innerWidth' = width
  /\ innerHeight' = height
  /\ LET r == OnWindowResize(width, height)
     IN  /\ windowHalfX' = r.windowHalfX
         /\ windowHalfY' = r.windowHalfY
         /\ camera' = [camera EXCEPT !.aspect = r.aspect]
         /\ rendererSize' = r.rendererSize
         /\ background' = r.background
         /\ frame' = Render(camera', scene, r.rendererSize)
         /\ mouseX' = FAdd(mouseX, FMul(FSub(windowHalfX, r.windowHalfX), MouseFactorX))
         /\ mouseY' = FAdd(mouseY, FMul(FSub(windowHalfY, r.windowHalfY), MouseFactorY))
  /\ resizedSince' = (lastPtr # NoPointer)
  /\ lastOp' = Record("resize", 1)
  /\ UNCHANGED <<phase, scene, rafPending, now, fontLoad, geometries, cloudI,
                 ticks, loopRenders, lastPtr>>

\* a resize event on the window, which now measures width by height
Resize(width, height) ==
  /\ phase = "running"
  /\ innerWidth' = width
  /\ innerHeight' = height
  /\ LET r == OnWindowResize(width, height)
     IN  /\ windowHalfX' = r.windowHalfX
         /\ windowHalfY' = r.windowHalfY
         /\ camera' = [camera EXCEPT !.aspect = r.aspect]
         /\ rendererSize' = r.rendererSize
         /\ background' = r.background
         /\ frame' = Render(camera', scene, r.rendererSize)
  /\ resizedSince' = (lastPtr # NoPointer)
  /\ lastOp' = Record("resize",
                     IF /\ lastOp.op = "resize"
                        /\ width = innerWidth
                        /\ height = innerHeight
                     THEN 2 ELSE 1)
  /\ UNCHANGED <<phase, mouseX, mouseY, scene, rafPending, now, fontLoad,
                 geometries, cloudI, ticks, loopRenders, lastPtr>>

WindowResize == \E s \in WindowSizes : Resize(s[1], s[2])

\* debug variant: the font arrives and its callback runs
FontLoaded ==
  /\ phase = "running"
  /\ fontLoad = "loading"
  /\ fontLoad' = "loaded"
  /\ scene' = OnFontLoaded(scene)
  /\ lastOp' = Record("font", 0)
  /\ UNCHANGED <<phase, innerWidth, innerHeight, windowHalfX, windowHalfY,
                 mouseX, mouseY, camera, rendererSize, background, frame,
                 rafPending, now, geometries, cloudI, ticks, loopRenders,
                 lastPtr, resizedSince>>

\* debug variant: the font load fails; no error callback was given
FontFailed ==
  /\ phase = "running"
  /\ fontLoad = "loading"
  /\ fontLoad' = "failed"
  /\ lastOp' = Record("fontfail", 0)
  /\ UNCHANGED <<phase, innerWidth, innerHeight, windowHalfX, windowHalfY,
                 mouseX, mouseY, camera, rendererSize, background, scene,
                 frame, rafPending, now, geometries, cloudI, ticks,
                 loopRenders, lastPtr, resizedSince>>

\* createClouds, one loop iteration per step
CloudLoop ==
  /\ phase = "load"
  /\ cloudI < NumQuads
  /\ \E r \in DrawVectors : geometries' = Append(geometries, MakeQuad(cloudI, r))
  /\ cloudI' = cloudI + 1
  /\ lastOp' = Record("quad", 0)
  /\ UNCHANGED <<phase, innerWidth, innerHeight, windowHalfX, windowHalfY,
                 mouseX, mouseY, camera, rendererSize, background, scene,
                 frame, rafPending, now, fontLoad, ticks, loopRenders, lastPtr,
                 resizedSince>>

\* createClouds, after the loop: the quads are merged and the two meshes added
CloudMerge ==
  /\ phase = "load"
  /\ cloudI = NumQuads
  /\ scene = <<>>
  /\ scene' = scene \o CloudMeshes
  /\ lastOp' = Record("merge", 0)
  /\ UNCHANGED <<phase, innerWidth, innerHeight, windowHalfX, windowHalfY,
                 mouseX, mouseY, camera, rendererSize, background, frame,
                 rafPending, now, fontLoad, geometries, cloudI, ticks,
                 loopRenders, lastPtr, resizedSince>>

Next == Start \/ AnimateFrame \/ MouseMove \/ TouchMove \/ WindowResize

NextDebug == Next \/ FontLoaded \/ FontFailed

NextClouds == CloudLoop \/ CloudMerge

\* script.js
Spec == Init /\ [][Next]_vars

\* the debug variant, with its font load
SpecDebug == InitDebug /\ [][NextDebug]_vars

\* the loop of createClouds
SpecClouds == Init /\ [][NextClouds]_vars

(***************************************************************************)
(* Properties.                                                              *)
(***************************************************************************)
DyPow2(n) == [neg |-> FALSE, man |-> <<1>>, exp |-> n]

\* |a - b| <= tol
DyWithin(a, b, tol) == DyLe(DyAbs(DySub(a, b)), tol)

\* an execution of animate(): the one init() makes or a frame callback
TickStep == ticks' = ticks + 1

\* C7: every quad generated by createClouds has its generation index as z,
\* whatever the random draws gave for x, y, rotation and scale, so z is
\* strictly increasing along the array.
C7_QuadDepthIsIndex ==
  /\ Len(geometries) = cloudI
  /\ \A k \in 1..Len(geometries) : geometries[k].z = DyInt(k - 1)
  /\ \A j, k \in 1..Len(geometries) :
       j < k => DyLt(geometries[j].z, geometries[k].z)

\* the loop has finished and the draws gave two quads different x, y,
\* rotation and scale
C7_Witness ==
  /\ Len(geometries) = NumQuads
  /\ \E j, k \in 1..NumQuads :
       /\ geometries[j].x # geometries[k].x
       /\ geometries[j].y # geometries[k].y
       /\ geometries[j].rotation # geometries[k].rotation
       /\ geometries[j].scale # geometries[k].scale

\* C6: once init() has run exactly one animate callback is pending at any
\* time, and the render calls made by animate() number the executions of
\* animate().
C6_OneRenderOneFramePerTick ==
  /\ phase = "load" => (ticks = 0 /\ rafPending = 0 /\ loopRenders = 0)
  /\ phase = "running" => (ticks >= 1 /\ rafPending = 1 /\ loopRenders = ticks)

\* the loop has run a frame callback after a frame callback
C6_Witness == ticks = 3 /\ lastOp.op = "frame" /\ frame.drawn

\* the pointer target an event at position p gives with the current centre
TargetOf(p) == ComputePointerTarget(p[1], p[2], windowHalfX, windowHalfY)

\* C3: the pointer target is (0, 0) until the first mousemove or single-touch
\* touchmove; afterwards, as long as no resize has followed it, it is the
\* target of the most recent such event alone, whatever events and ticks
\* came before or between.
C3_PointerLastWriteWins ==
  /\ lastPtr = NoPointer => (mouseX = DyZero /\ mouseY = DyZero)
  /\ (lastPtr # NoPointer /\ ~resizedSince) =>
       (mouseX = TargetOf(lastPtr).mouseX /\ mouseY = TargetOf(lastPtr).mouseY)

\* a frame callback ran after a pointer event, and the camera has moved
\* towards an earlier, different target
C3_Witness ==
  /\ lastOp.op = "frame"
  /\ ticks = 3
  /\ lastPtr # NoPointer
  /\ ~resizedSince
  /\ DySign(camera.x) # DySign(mouseX)

\* C5: a touchmove whose touch list does not hold exactly one touch leaves
\* the pointer target as it was; one with exactly one touch sets it from
\* that touch.
C5_MultiTouchIgnored ==
  [][ /\ (lastOp'.op = "touchmove" /\ lastOp'.n # 1) =>
           (mouseX' = mouseX /\ mouseY' = mouseY)
      /\ (lastOp'.op = "touchmove" /\ lastOp'.n = 1) =>
           /\ mouseX' = TargetOf(lastPtr').mouseX
           /\ mouseY' = TargetOf(lastPtr').mouseY ]_vars

\* a touchmove with several touches ran while a pointer target was set
C5_Witness ==
  /\ lastOp.op = "touchmove"
  /\ lastOp.n >= 2
  /\ lastPtr # NoPointer
  /\ mouseX # DyZero

\* C10: a resize leaves the pointer target and the camera position as they
\* were.
C10_ResizeKeepsPointerAndCamera ==
  [][ lastOp'.op = "resize" =>
        /\ mouseX' = mouseX
        /\ mouseY' = mouseY
        /\ camera'.x = camera.x
        /\ camera'.y = camera.y
        /\ camera'.z = camera.z ]_vars

\* a resize changed the centre after a pointer event and after the camera
\* moved: the stored target is not the one the event's position gives now
C10_Witness ==
  /\ lastOp.op = "resize"
  /\ lastPtr # NoPointer
  /\ mouseX # TargetOf(lastPtr).mouseX
  /\ mouseY # TargetOf(lastPtr).mouseY
  /\ camera.x # DyZero

\* the state a resize lays out
Layout == <<windowHalfX, windowHalfY, camera.aspect, rendererSize, background>>

\* C4: a second resize in a row that reports the same window size leaves
\* the half-dimensions, the camera aspect, the renderer size and the
\* background canvas size as the first one left them.
C4_ResizeIdempotent ==
  [][ (lastOp'.op = "resize" /\ lastOp'.n = 2) => Layout' = Layout ]_vars

\* two resize events in a row reported the same size
C4_Witness ==
  /\ lastOp = Op("resize", 2)
  /\ background = [width |-> BackgroundWidth, height |-> innerHeight]
  /\ rendererSize = <<innerWidth, innerHeight>>

\* C9: the camera depth is 6000 until animate() first runs; after every
\* execution of animate() it is the depth computed from the elapsed time of
\* that execution alone and lies in (0, 8000]; no event handler changes it.
C9_DepthInRangeFromElapsed ==
  /\ ticks = 0 => camera.z = DyInt(CameraStartZ)
  /\ ticks > 0 =>
       /\ camera.z = CameraZ(now)
       /\ DyLt(DyZero, camera.z)
       /\ DyLe(camera.z, DyInt(LoopLength))

\* after input events and two further ticks the depth is just above zero
C9_Witness ==
  /\ ticks = 3
  /\ lastPtr # NoPointer
  /\ resizedSince
  /\ DyLt(camera.z, DyInt(1))

\* the elapsed times dt for which dt * 0.03 is a whole number of loop lengths
RateNumerator == 3

RateDenominator == 100

WholeLoops(dt) == (dt * RateNumerator) % (LoopLength * RateDenominator) = 0

\* 2^-25, which bounds the rounding of two depths at elapsed times below 2^31
DepthTolerance == DyPow2(-25)

\* C1 as stated: two executions of animate() whose elapsed times differ by a
\* whole number of periods compute the same camera depth.
C1_ExactlyPeriodic ==
  [][ (ticks >= 1 /\ TickStep /\ WholeLoops(now' - now)) =>
        camera'.z = camera.z ]_vars

\* C1 amended: two executions of animate() whose elapsed times differ by a
\* whole number of periods compute camera depths that differ by at most
\* 2^-25.
C1_PeriodicUpToRounding ==
  [][ (ticks >= 1 /\ TickStep /\ WholeLoops(now' - now)) =>
        DyWithin(camera'.z, camera.z, DepthTolerance) ]_vars

\* animate() ran at 1 ms and again three periods later, and the two depths
\* are not the same number
C1_Witness ==
  /\ ticks = 2
  /\ now = 800001
  /\ camera.z # CameraZ(1)
  /\ DyWithin(camera.z, CameraZ(1), DepthTolerance)

\* the coordinate moved from distance d to distance e of its target without
\* passing it and without moving away
Approaches(d, e) ==
  /\ DySign(d) >= 0 => (DyLe(DyZero, e) /\ DyLe(e, d))
  /\ DySign(d) <= 0 => (DyLe(d, e) /\ DyLe(e, DyZero))

\* e = (1 - 0.005) * d, that is 200 * e = 199 * d
DampedExactly(d, e) == DyMul(DyInt(200), e) = DyMul(DyInt(199), d)

\* |e - (1 - 0.005) * d| <= 2^-52 * bound
DampedWithin(d, e, bound) ==
  DyWithin(DyMul(DyInt(200), e), DyMul(DyInt(199), d),
           DyMul(DyInt(200), DyScale(bound, -52)))

Larger(v, target) == DyMax(DyAbs(v), DyAbs(target))

\* C2 as stated: on every execution of animate() camera x and y approach
\* mouseX and -mouseY without overshooting, and the remaining distance is
\* exactly 0.995 times what it was.
C2_ExactDamping ==
  [][ TickStep =>
        /\ Approaches(DySub(mouseX, camera.x), DySub(mouseX, camera'.x))
        /\ Approaches(DySub(DyNeg(mouseY), camera.y),
                      DySub(DyNeg(mouseY), camera'.y))
        /\ DampedExactly(DySub(mouseX, camera.x), DySub(mouseX, camera'.x))
        /\ DampedExactly(DySub(DyNeg(mouseY), camera.y),
                         DySub(DyNeg(mouseY), camera'.y)) ]_vars

\* C2 amended: on every execution of animate() camera x and y do not move
\* away from mouseX and -mouseY and do not overshoot them, and the remaining
\* distance is 0.995 times what it was to within 2^-52 times the larger of
\* the magnitudes of the coordinate and its target.
C2_DampingUpToRounding ==
  [][ TickStep =>
        /\ Approaches(DySub(mouseX, camera.x), DySub(mouseX, camera'.x))
        /\ Approaches(DySub(DyNeg(mouseY), camera.y),
                      DySub(DyNeg(mouseY), camera'.y))
        /\ DampedWithin(DySub(mouseX, camera.x), DySub(mouseX, camera'.x),
                        Larger(camera.x, mouseX))
        /\ DampedWithin(DySub(DyNeg(mouseY), camera.y),
                        DySub(DyNeg(mouseY), camera'.y),
                        Larger(camera.y, mouseY)) ]_vars

\* two frame callbacks in a row eased the camera towards the same non-zero
\* target: after the second, x and y lie strictly between 0.005 and 0.01
\* of the way to it
C2_Witness ==
  /\ ticks = 3
  /\ lastOp.op = "frame"
  /\ mouseX # DyZero
  /\ mouseY # DyZero
  /\ DyLt(DyAbs(mouseX), DyAbs(DyMul(DyInt(200), camera.x)))
  /\ DyLt(DyAbs(DyMul(DyInt(100), camera.x)), DyAbs(mouseX))
  /\ DyLt(DyAbs(mouseY), DyAbs(DyMul(DyInt(200), camera.y)))
  /\ DyLt(DyAbs(DyMul(DyInt(100), camera.y)), DyAbs(mouseY))
  /\ DySign(camera.x) = DySign(mouseX)
  /\ DySign(camera.y) = -DySign(mouseY)

TextMeshes == {i \in DOMAIN scene : scene[i] = "text"}

C8_WitnessFailed ==
  /\ fontLoad = "failed"
  /\ ticks = 3
  /\ frame.objects = 2

====
